---- MODULE Spec2Model ----
(***************************************************************************)
(* A model of the gestalt property-spec parser (src/gestalt.go).           *)
(*                                                                         *)
(* Two parse entry points are modelled:                                    *)
(*   - LoadStr/loadBuffer of the Properties type: the segmenter            *)
(*     splitCleanPropSpecs, scanned one character per step, followed by    *)
(*     parseProperty on every logical line;                                *)
(*   - New/parse of the Gestalt type: parse's trim/replace/split followed  *)
(*     by parsePSpec on every line.                                        *)
(*                                                                         *)
(* Three further specifications extend the parse:                          *)
(*   - SpecAccess: a typed accessor is called on the parsed object;        *)
(*   - SpecCrlf: a buffer with CR LF line ends is parsed, then the same    *)
(*     buffer with LF line ends;                                           *)
(*   - SpecStores: the caller keeps the objects LoadStr returned and calls *)
(*     Copy, Inherit and Clone on them; SpecShare does so with three       *)
(*     objects.                                                            *)
(*                                                                         *)
(* Text is a sequence of one-character strings.                            *)
(***************************************************************************)
EXTENDS Integers, Sequences, FiniteSets, TLC

VARIABLES pc, entry, input, s, pos, erase, cont, reset, b, specs, n, p, e,
          stores, heap, last

vars == <<pc, entry, input, s, pos, erase, cont, reset, b, specs, n, p, e,
          stores, heap, last>>

\* the Properties objects a caller holds, the map objects their table values
\* refer to, and the last call made on them
ext == <<stores, heap, last>>

(***************************************************************************)
(* Property file constants (src/gestalt.go, const block)                   *)
(***************************************************************************)
NIL == <<>>
VAL_DELIM == ","
KV_DELIM == ":"
QUOTE == {"\""}
PKV_SEP == "="
TRIMSET == {"\n", "\r", " ", "\t"}
WS == {" ", "\t"}
ARRAY == <<"[", "]">>
MAP == <<"[", ":", "]">>
MIN_ENTRY_LEN == 3
R_CONTINUATION == "\\"
R_COMMENT == "#"
LF == "\n"
CR == "\r"

\* the table suffix of the Gestalt type
GMAP == <<"m", "a", "p", "[", "]">>

(***************************************************************************)
(* Go's strings package, on sequences of characters                        *)
(***************************************************************************)
Drop(str, k) == SubSeq(str, k + 1, Len(str))

\* strings.Trim(str, cutset)
Trim(str, cutset) ==
  LET keep == {i \in 1..Len(str) : str[i] \notin cutset}
  IN  IF keep = {} THEN <<>>
      ELSE LET lo == CHOOSE i \in keep : \A j \in keep : i <= j
               hi == CHOOSE i \in keep : \A j \in keep : j <= i
           IN  SubSeq(str, lo, hi)

\* strings.Index(str, c) for a one-character c; 0-based, -1 when absent
Index(str, c) ==
  LET at == {i \in 1..Len(str) : str[i] = c}
  IN  IF at = {} THEN -1
      ELSE (CHOOSE i \in at : \A j \in at : i <= j) - 1

\* strings.Split(str, sep) for a one-character sep
RECURSIVE Split(_, _)
Split(str, sep) ==
  LET i == Index(str, sep)
  IN  IF i < 0 THEN <<str>>
      ELSE <<SubSeq(str, 1, i)>> \o Split(Drop(str, i + 1), sep)

\* strings.Replace(str, old, new, -1) for a non-empty old
RECURSIVE Replace(_, _, _)
Replace(str, old, new) ==
  IF Len(str) < Len(old) THEN str
  ELSE IF SubSeq(str, 1, Len(old)) = old
       THEN new \o Replace(Drop(str, Len(old)), old, new)
       ELSE <<Head(str)>> \o Replace(Tail(str), old, new)

\* strings.HasSuffix(str, suffix)
HasSuffix(str, suffix) ==
  /\ Len(str) >= Len(suffix)
  /\ SubSeq(str, Len(str) - Len(suffix) + 1, Len(str)) = suffix

\* strings.HasPrefix(str, prefix)
HasPrefix(str, prefix) ==
  /\ Len(str) >= Len(prefix)
  /\ SubSeq(str, 1, Len(prefix)) = prefix

(***************************************************************************)
(* Values: Go's interface{} holding nil, string, []string or               *)
(* map[string]string                                                       *)
(***************************************************************************)
EmptyMap == [k \in {} |-> <<>>]

NilV == [kind |-> "nil", str |-> <<>>, arr |-> <<>>, tab |-> EmptyMap]
StrV(v) == [kind |-> "string", str |-> v, arr |-> <<>>, tab |-> EmptyMap]
ArrV(a) == [kind |-> "array", str |-> <<>>, arr |-> a, tab |-> EmptyMap]
MapV(m) == [kind |-> "map", str |-> <<>>, arr |-> <<>>, tab |-> m]

\* m[k] = v on a Go map
MapPut(m, k, v) == [x \in (DOMAIN m) \cup {k} |-> IF x = k THEN v ELSE m[x]]

\* a Properties / Gestalt object: nil, or a map from key to value
NilStore == [isNil |-> TRUE, kv |-> EmptyMap]
MakeStore == [isNil |-> FALSE, kv |-> EmptyMap]
StorePut(st, k, v) == [st EXCEPT !.kv = MapPut(st.kv, k, v)]

NoErr == ""

(***************************************************************************)
(* Properties: key classification                                          *)
(***************************************************************************)
\* the table suffix of the Gestalt type in place of MAP
IsMapKey_gestalt(key) == HasSuffix(key, GMAP)

IsMapKey(key) == HasSuffix(key, MAP)

IsArrayKey(key) == ~IsMapKey(key) /\ HasSuffix(key, ARRAY)

(***************************************************************************)
(* Properties: parseProperty, the decoder of one logical line              *)
(***************************************************************************)
\* what parseProperty returns: (key, value, e), or a run-time panic
Ret(k, v, err) == [key |-> k, value |-> v, e |-> err, panic |-> FALSE]
Panic == [key |-> NIL, value |-> NilV, e |-> NoErr, panic |-> TRUE]

\* the loop over kvpairs of the map branch: entries i..Len(kvpairs) are
\* put into kvmap in order; an entry without KV_DELIM makes _kvarr[1]
\* an index out of range
RECURSIVE mapEntries(_, _, _)
mapEntries(kvpairs, i, kvmap) ==
  IF i > Len(kvpairs) THEN [panic |-> FALSE, tab |-> kvmap]
  ELSE LET kv == Trim(kvpairs[i], WS)
           kvarr == Split(kv, KV_DELIM)
       IN  IF Len(kvarr) < 2 THEN [panic |-> TRUE, tab |-> kvmap]
           ELSE LET ek == Trim(kvarr[1], WS)
                    ev == Trim(kvarr[2], WS)
                IN  mapEntries(kvpairs, i + 1,
                               MapPut(kvmap, Trim(ek, QUOTE), Trim(ev, QUOTE)))

\* the map branch
decodeMap(vrep) == mapEntries(Split(vrep, VAL_DELIM), 1, EmptyMap)

\* the array branch without the trim of the elements
decodeArray_untrimmed(vrep) ==
  LET arrv == Split(vrep, VAL_DELIM)
  IN  [i \in 1..Len(arrv) |-> Trim(arrv[i], QUOTE)]

\* the array branch
decodeArray(vrep) ==
  LET arrv == Split(vrep, VAL_DELIM)
  IN  [i \in 1..Len(arrv) |-> Trim(Trim(arrv[i], WS), QUOTE)]

\* the string branch
decodeString(vrep) == Trim(vrep, QUOTE)

\* the guard that skips a line
tooShort(spec) == Len(spec) < MIN_ENTRY_LEN

\* the well-formedness test
malformed(propTuple) == Len(propTuple) # 2 \/ propTuple[2] = NIL

\* key = strings.Trim(propTuple[0], WS)
keyOf(propTuple) == Trim(propTuple[1], WS)

vrepOf_untrimmed(propTuple) == propTuple[2]

\* vrep := strings.Trim(propTuple[1], WS)
vrepOf(propTuple) == Trim(propTuple[2], WS)

parseProperty(spec) ==
  IF tooShort(spec) THEN Ret(NIL, NilV, NoErr)
  ELSE LET propTuple == Split(Trim(spec, TRIMSET), PKV_SEP)
       IN  IF malformed(propTuple) THEN Ret(NIL, NilV, "malformed")
           ELSE LET key == keyOf(propTuple)
                    vrep == vrepOf(propTuple)
                IN  IF IsMapKey(key)
                    THEN LET m == decodeMap(vrep)
                         IN  IF m.panic THEN Panic
                             ELSE Ret(key, MapV(m.tab), NoErr)
                    ELSE IF IsArrayKey(key)
                    THEN Ret(key, ArrV(decodeArray(vrep)), NoErr)
                    ELSE Ret(key, StrV(decodeString(vrep)), NoErr)

(***************************************************************************)
(* Properties: splitCleanPropSpecs, the segmenter                          *)
(***************************************************************************)
\* scanStep where the comment introducer does not start the erasure
scanStep_keepIntroducer(c, er, co, re) ==
  IF c = R_CONTINUATION THEN [erase |-> TRUE, cont |-> TRUE, reset |-> re]
  ELSE IF c = R_COMMENT THEN [erase |-> er, cont |-> co, reset |-> re]
  ELSE IF c = LF
       THEN IF co THEN [erase |-> er, cont |-> FALSE, reset |-> TRUE]
            ELSE [erase |-> FALSE, cont |-> co, reset |-> re]
  ELSE IF re THEN [erase |-> FALSE, cont |-> co, reset |-> FALSE]
  ELSE [erase |-> er, cont |-> co, reset |-> re]

\* scanStep without the reset that keeps the first character of a
\* continued line
scanStep_noReset(c, er, co, re) ==
  IF c = R_CONTINUATION THEN [erase |-> TRUE, cont |-> TRUE, reset |-> re]
  ELSE IF c = R_COMMENT THEN [erase |-> TRUE, cont |-> co, reset |-> re]
  ELSE IF c = LF
       THEN IF co THEN [erase |-> er, cont |-> FALSE, reset |-> re]
            ELSE [erase |-> FALSE, cont |-> co, reset |-> re]
  ELSE IF re THEN [erase |-> FALSE, cont |-> co, reset |-> FALSE]
  ELSE [erase |-> er, cont |-> co, reset |-> re]

\* one iteration of the scan loop on character c: the new flags
scanStep(c, er, co, re) ==
  IF c = R_CONTINUATION THEN [erase |-> TRUE, cont |-> TRUE, reset |-> re]
  ELSE IF c = R_COMMENT THEN [erase |-> TRUE, cont |-> co, reset |-> re]
  ELSE IF c = LF
       THEN IF co THEN [erase |-> er, cont |-> FALSE, reset |-> TRUE]
            ELSE [erase |-> FALSE, cont |-> co, reset |-> re]
  ELSE IF re THEN [erase |-> FALSE, cont |-> co, reset |-> FALSE]
  ELSE [erase |-> er, cont |-> co, reset |-> re]

(***************************************************************************)
(* Gestalt: parsePSpec, cleanTuple, unquoteValue and parse's first step    *)
(***************************************************************************)
\* trims leading and trailing whitespace from the two parts
cleanTuple(tuple) == <<Trim(tuple[1], WS), Trim(tuple[2], WS)>>

\* removes the enclosing " chars from the value spec
unquoteValue(v) == Trim(v, QUOTE)

\* the loop over entries of the map case: an entry that does not split
\* into two parts at ":" is passed over
RECURSIVE gMapEntries(_, _, _)
gMapEntries(entries, i, mapv) ==
  IF i > Len(entries) THEN mapv
  ELSE LET etuple == Split(Trim(entries[i], WS), ":")
       IN  IF Len(etuple) = 2
           THEN LET t == cleanTuple(etuple)
                IN  gMapEntries(entries, i + 1,
                                MapPut(mapv, t[1], unquoteValue(t[2])))
           ELSE gMapEntries(entries, i + 1, mapv)

\* the array case
gArray(vspec) ==
  LET arrayv == Split(vspec, ",")
  IN  [i \in 1..Len(arrayv) |-> unquoteValue(Trim(arrayv[i], WS))]

\* s[:i] when a "#" occurs after the first character
cutComment(str) ==
  LET i == Index(str, "#")
  IN  IF i > 0 THEN SubSeq(str, 1, i) ELSE str

parsePSpec(str) ==
  IF HasPrefix(str, <<"#">>) THEN Ret(NIL, NilV, NoErr)
  ELSE LET t == Trim(cutComment(str), TRIMSET)
       IN  IF Len(t) = 0 THEN Ret(NIL, NilV, NoErr)
           ELSE LET stuple == Split(t, "=")
                IN  IF Len(stuple) # 2 THEN Ret(NIL, NilV, "format error")
                    ELSE LET kv == cleanTuple(stuple)
                             k == kv[1]
                             vspec == kv[2]
                         IN  IF HasSuffix(k, GMAP)
                             THEN Ret(k, MapV(gMapEntries(Split(vspec, ","), 1,
                                                          EmptyMap)), NoErr)
                             ELSE IF HasSuffix(k, ARRAY)
                             THEN Ret(k, ArrV(gArray(vspec)), NoErr)
                             ELSE Ret(k, StrV(unquoteValue(vspec)), NoErr)

\* parse, up to the split into lines
parseLines(str) ==
  LET s1 == Trim(str, TRIMSET)
      s2 == Replace(s1, <<CR, LF>>, <<LF>>)
      s3 == Replace(s2, <<R_CONTINUATION, LF>>, <<>>)
  IN  Split(s3, LF)

(***************************************************************************)
(* Input buffers                                                           *)
(***************************************************************************)
\* all texts over alphabet A of length at most k
RECURSIVE Texts(_, _)
Texts(A, k) ==
  IF k = 0 THEN {<<>>}
  ELSE LET shorter == Texts(A, k - 1)
       IN  shorter \cup {Append(t, c) : t \in shorter, c \in A}

\* the lines ls joined by line-feeds
RECURSIVE Join(_)
Join(ls) ==
  IF Len(ls) = 0 THEN <<>>
  ELSE IF Len(ls) = 1 THEN ls[1]
  ELSE ls[1] \o <<LF>> \o Join(Tail(ls))

\* every buffer over the scanner's characters, up to MaxLen characters
MaxLen == 5
ScanAlphabet == {"a", "=", R_COMMENT, R_CONTINUATION, LF}
ScanBufs == Texts(ScanAlphabet, MaxLen)

\* buffers of up to MaxLines lines: well-formed, malformed, short, blank
\* and commented ones
MaxLines == 3
LineSet ==
  { <<"a", "=", "b">>,
    <<"c", " ", "=", " ", "d">>,
    <<"a", "b", "c">>,
    <<"a", "=", "b", "=", "c">>,
    <<"a", "b">>,
    <<>>,
    <<" ", " ", " ">>,
    <<" ">>,
    <<"k", " ", "=">>,
    <<"a", "=", "b", "#", "=", "c">>,
    <<"#", "a", "b", "c">>,
    <<"a", "b", "c", "#", "=", "d">> }
LineBufs ==
  {<<>>} \cup
  {Join(ls) : ls \in UNION {[1..m -> LineSet] : m \in 1..MaxLines}}

\* one declaration on one line: a key of each kind, tight or padded with
\* spaces and tabs, and every value over the decoder's characters up to
\* MaxVal characters
MaxVal == 4
ValueAlphabet == {"a", " ", "\"", VAL_DELIM, KV_DELIM}
Keys ==
  { <<"k">>,
    <<"a", " ", "b">>,
    <<"k", "[", "]">>,
    <<"k", "[", ":", "]">>,
    <<"m", "a", "p", "[", "]">> }
DeclBufs ==
  {k \o <<"=">> \o v : k \in Keys, v \in Texts(ValueAlphabet, MaxVal)}
  \cup
  {<<" ">> \o k \o <<"\t", "=", " ">> \o v \o <<"\t">> :
     k \in Keys, v \in Texts(ValueAlphabet, MaxVal)}

\* one declaration on three physical lines, the first two ending in the
\* continuation marker; fragments of up to MaxFrag characters
MaxFrag == 2
ContBufs ==
  {k \o <<"=">> \o f1 \o <<R_CONTINUATION, LF>> \o f2
     \o <<R_CONTINUATION, LF>> \o f3 :
     k \in {<<"k">>, <<"k", "[", "]">>},
     f1 \in Texts({"a", VAL_DELIM}, MaxFrag),
     f2 \in Texts({"b", " "}, MaxFrag),
     f3 \in Texts({"c", VAL_DELIM}, MaxFrag)}

\* the two continuation examples of test.conf
LongOne ==
  <<"l", "o", "=", " ", "e", "n", "d", "s", " ", R_CONTINUATION, LF,
    "i", "n", R_CONTINUATION, LF,
    " ", " ", " ", " ", ".">>
MultiLine ==
  <<"m", "l", "[", "]", " ", "=", " ", "a", ",", " ", "b", ",", " ", "c",
    ",", " ", R_CONTINUATION, LF,
    " ", " ", "1", "2", R_CONTINUATION, LF,
    " ", "4", "5", "6", "7", " ", " ", ",", R_CONTINUATION, LF,
    " ", " ", "d", ",", " ", "e">>

Inputs == ScanBufs \cup LineBufs \cup DeclBufs \cup ContBufs
          \cup {LongOne, MultiLine}

(***************************************************************************)
(* The state machine                                                       *)
(***************************************************************************)
\* no call has been made yet
NoCall == [op |-> "none", into |-> "", from |-> "", overwrite |-> FALSE,
           key |-> <<>>, before |-> <<>>, out |-> <<>>, seq |-> 0]

InitWith(I) ==
  /\ input \in I
  /\ pc = "init"
  /\ entry = "none"
  /\ s = <<>>
  /\ pos = 0
  /\ erase = FALSE
  /\ cont = FALSE
  /\ reset = FALSE
  /\ b = <<>>
  /\ specs = <<>>
  /\ n = 0
  /\ p = NilStore
  /\ e = NoErr
  /\ stores = <<>>
  /\ heap = <<>>
  /\ last = NoCall

Init == InitWith(Inputs)

isNilSpec_never(str) == FALSE

\* loadBuffer's test s == NIL
isNilSpec(str) == str = NIL

\* LoadStr(spec) -> loadBuffer(spec): the nil test, then the segmenter's
\* trim and initial flags
LoadStr ==
  /\ pc = "init"
  /\ entry \in {"none", "LoadStr"}
  /\ entry' = "LoadStr"
  /\ IF isNilSpec(input)
     THEN /\ e' = "s is nil"
          /\ pc' = "done"
          /\ UNCHANGED <<s, pos>>
     ELSE /\ s' = Trim(input, TRIMSET)
          /\ pos' = 1
          /\ pc' = "scan"
          /\ e' = NoErr
  /\ erase' = FALSE
  /\ cont' = FALSE
  /\ reset' = FALSE
  /\ b' = <<>>
  /\ UNCHANGED <<input, specs, n, p>>
  /\ UNCHANGED ext

\* one iteration of the loop over the characters of s
ScanChar ==
  /\ pc = "scan"
  /\ pos <= Len(s)
  /\ LET f == scanStep(s[pos], erase, cont, reset)
     IN  /\ erase' = f.erase
         /\ cont' = f.cont
         /\ reset' = f.reset
         /\ b' = IF f.erase THEN b ELSE Append(b, s[pos])
  /\ pos' = pos + 1
  /\ UNCHANGED <<pc, entry, input, s, specs, n, p, e>>
  /\ UNCHANGED ext

\* the end of splitCleanPropSpecs (the split into specs) and the start of
\* loadBuffer's loop (p = make(Properties))
SplitSpecs ==
  /\ pc = "scan"
  /\ pos > Len(s)
  /\ specs' = Split(b, LF)
  /\ p' = MakeStore
  /\ n' = 1
  /\ pc' = "load"
  /\ UNCHANGED <<entry, input, s, pos, erase, cont, reset, b, e>>
  /\ UNCHANGED ext

\* one iteration of loadBuffer's loop over specs; on an error the function
\* returns with its named results p and e as they stand
LoadNext ==
  /\ pc = "load"
  /\ n <= Len(specs)
  /\ LET r == parseProperty(specs[n])
     IN  IF r.panic
         THEN /\ pc' = "panic"
              /\ UNCHANGED <<p, e, n>>
         ELSE IF r.e # NoErr
         THEN /\ e' = r.e
              /\ pc' = "done"
              /\ UNCHANGED <<p, n>>
         ELSE /\ p' = IF r.key # NIL THEN StorePut(p, r.key, r.value) ELSE p
              /\ n' = n + 1
              /\ UNCHANGED <<pc, e>>
  /\ UNCHANGED <<entry, input, s, pos, erase, cont, reset, b, specs>>
  /\ UNCHANGED ext

\* loadBuffer's return after the loop
LoadReturn ==
  /\ pc = "load"
  /\ n > Len(specs)
  /\ pc' = "done"
  /\ UNCHANGED <<entry, input, s, pos, erase, cont, reset, b, specs, n, p, e>>
  /\ UNCHANGED ext

\* New(spec) -> parse(spec): trim, replace, split and make(Gestalt)
New ==
  /\ pc = "init"
  /\ entry \in {"none", "New"}
  /\ entry' = "New"
  /\ specs' = parseLines(input)
  /\ p' = MakeStore
  /\ n' = 1
  /\ pc' = "parse"
  /\ UNCHANGED <<input, s, pos, erase, cont, reset, b, e>>
  /\ UNCHANGED ext

\* one iteration of parse's loop over sarr; on an error parse returns
\* (nil, error)
ParseNext ==
  /\ pc = "parse"
  /\ n <= Len(specs)
  /\ IF Len(specs[n]) = 0
     THEN /\ n' = n + 1
          /\ UNCHANGED <<pc, p, e>>
     ELSE LET r == parsePSpec(specs[n])
          IN  IF r.e # NoErr
              THEN /\ e' = r.e
                   /\ p' = NilStore
                   /\ pc' = "done"
                   /\ UNCHANGED n
              ELSE /\ p' = IF r.key # NIL THEN StorePut(p, r.key, r.value)
                                          ELSE p
                   /\ n' = n + 1
                   /\ UNCHANGED <<pc, e>>
  /\ UNCHANGED <<entry, input, s, pos, erase, cont, reset, b, specs>>
  /\ UNCHANGED ext

\* parse's return after the loop
ParseReturn ==
  /\ pc = "parse"
  /\ n > Len(specs)
  /\ pc' = "done"
  /\ UNCHANGED <<entry, input, s, pos, erase, cont, reset, b, specs, n, p, e>>
  /\ UNCHANGED ext

Next ==
  \/ LoadStr
  \/ ScanChar
  \/ SplitSpecs
  \/ LoadNext
  \/ LoadReturn
  \/ New
  \/ ParseNext
  \/ ParseReturn

Spec == Init /\ [][Next]_vars

Done == pc = "done"

(***************************************************************************)
(* Typed accessors                                                         *)
(***************************************************************************)
\* what an accessor returns, or the panic of a failed type assertion
Got(v) == [panic |-> FALSE, val |-> v]
CastPanic == [panic |-> TRUE, val |-> NilV]

\* st[key] on a Go map (a nil map reads as empty)
Lookup(st, key) == IF key \in DOMAIN st.kv THEN st.kv[key] ELSE NilV

\* Properties.GetString
GetString(st, key) ==
  IF ~(IsMapKey(key) \/ IsArrayKey(key))
  THEN LET v == Lookup(st, key)
       IN  IF v.kind = "nil" THEN Got(StrV(<<>>))
           ELSE IF v.kind = "string" THEN Got(v) ELSE CastPanic
  ELSE Got(StrV(<<>>))

\* Gestalt.GetString
GestaltGetString(st, key) ==
  IF ~(HasSuffix(key, GMAP) /\ HasSuffix(key, ARRAY))
  THEN LET v == Lookup(st, key)
       IN  IF v.kind = "nil" THEN Got(StrV(<<>>))
           ELSE IF v.kind = "string" THEN Got(v) ELSE CastPanic
  ELSE Got(StrV(<<>>))

\* Properties.GetArray
GetArray(st, key) ==
  IF IsArrayKey(key)
  THEN LET v == Lookup(st, key)
       IN  IF v.kind = "nil" THEN Got(NilV)
           ELSE IF v.kind = "array" THEN Got(v) ELSE CastPanic
  ELSE Got(NilV)

\* Properties.GetMap
GetMap(st, key) ==
  IF IsMapKey(key)
  THEN LET v == Lookup(st, key)
       IN  IF v.kind = "nil" THEN Got(NilV)
           ELSE IF v.kind = "map" THEN Got(v) ELSE CastPanic
  ELSE Got(NilV)

\* Gestalt.GetArray
GestaltGetArray(st, key) ==
  IF ~HasSuffix(key, GMAP) /\ HasSuffix(key, ARRAY)
  THEN LET v == Lookup(st, key)
       IN  IF v.kind = "nil" THEN Got(NilV)
           ELSE IF v.kind = "array" THEN Got(v) ELSE CastPanic
  ELSE Got(NilV)

\* Gestalt.GetMap
GestaltGetMap(st, key) ==
  IF HasSuffix(key, GMAP)
  THEN LET v == Lookup(st, key)
       IN  IF v.kind = "nil" THEN Got(NilV)
           ELSE IF v.kind = "map" THEN Got(v) ELSE CastPanic
  ELSE Got(NilV)

\* the accessor acc of the parsed object's type
access(en, acc, st, key) ==
  IF en = "New"
  THEN IF acc = "GetString" THEN GestaltGetString(st, key)
       ELSE IF acc = "GetArray" THEN GestaltGetArray(st, key)
       ELSE GestaltGetMap(st, key)
  ELSE IF acc = "GetString" THEN GetString(st, key)
       ELSE IF acc = "GetArray" THEN GetArray(st, key)
       ELSE GetMap(st, key)

Accessors == {"GetString", "GetArray", "GetMap"}

\* the caller reads a key of the object a successful parse returned; a
\* failed type assertion ends the program
Access ==
  /\ pc = "done"
  /\ e = NoErr
  /\ ~p.isNil
  /\ last.op = "none"
  /\ \E acc \in Accessors, key \in Keys :
       LET r == access(entry, acc, p, key)
       IN  /\ last' = [NoCall EXCEPT !.op = acc, !.key = key, !.out = r,
                                     !.seq = last.seq + 1]
           /\ pc' = IF r.panic THEN "panic" ELSE pc
  /\ UNCHANGED <<entry, input, s, pos, erase, cont, reset, b, specs, n, p, e,
                 stores, heap>>

InitAccess == InitWith(DeclBufs)

NextAccess ==
  \/ LoadStr
  \/ ScanChar
  \/ SplitSpecs
  \/ LoadNext
  \/ LoadReturn
  \/ New
  \/ ParseNext
  \/ ParseReturn
  \/ Access

\* a buffer is parsed and the caller reads one key of the result
SpecAccess == InitAccess /\ [][NextAccess]_vars

(***************************************************************************)
(* A buffer with CR LF line ends, parsed as it is and with LF line ends    *)
(***************************************************************************)
RECURSIVE TokenTexts(_, _)
TokenTexts(T, k) ==
  IF k = 0 THEN {<<>>}
  ELSE LET shorter == TokenTexts(T, k - 1)
       IN  shorter \cup {t \o c : t \in shorter, c \in T}

\* every buffer of up to MaxCrlf tokens, a token being a character or a
\* CR LF pair
MaxCrlf == 5
CrlfTokens ==
  {<<"a">>, <<PKV_SEP>>, <<" ">>, <<R_CONTINUATION>>, <<CR, LF>>}
CrlfBufs == TokenTexts(CrlfTokens, MaxCrlf)

HasCRLF(txt) == \E i \in 1..(Len(txt) - 1) : txt[i] = CR /\ txt[i + 1] = LF

\* what a parse gave its caller: a store, an error, or a panic
Outcome ==
  [res |-> IF pc = "panic" THEN "panic"
           ELSE IF e # NoErr THEN "error" ELSE "ok",
   st |-> IF pc = "done" /\ e = NoErr THEN p ELSE NilStore]

\* the caller notes the outcome and parses, through the same entry point,
\* the buffer with every CR LF replaced by LF
Reparse ==
  /\ pc \in {"done", "panic"}
  /\ last.op = "none"
  /\ HasCRLF(input)
  /\ last' = [NoCall EXCEPT !.op = "parsed", !.key = input, !.out = Outcome,
                            !.seq = last.seq + 1]
  /\ input' = Replace(input, <<CR, LF>>, <<LF>>)
  /\ pc' = "init"
  /\ s' = <<>>
  /\ pos' = 0
  /\ erase' = FALSE
  /\ cont' = FALSE
  /\ reset' = FALSE
  /\ b' = <<>>
  /\ specs' = <<>>
  /\ n' = 0
  /\ p' = NilStore
  /\ e' = NoErr
  /\ UNCHANGED <<entry, stores, heap>>

InitCrlf == InitWith(CrlfBufs)

NextCrlf ==
  \/ LoadStr
  \/ ScanChar
  \/ SplitSpecs
  \/ LoadNext
  \/ LoadReturn
  \/ New
  \/ ParseNext
  \/ ParseReturn
  \/ Reparse

SpecCrlf == InitCrlf /\ [][NextCrlf]_vars

(***************************************************************************)
(* Properties objects held by a caller: Copy, Inherit, Clone               *)
(*                                                                         *)
(* A Go map is a reference: a table value stored under a key is a          *)
(* reference to a map object of the heap, and p[k] = v shares the object.  *)
(* A list value is never written in place (Inherit builds a new slice), so *)
(* lists are held by value.                                                *)
(***************************************************************************)
\* a table value as held by a Properties object: a reference to a map object
RefV(r) ==
  [kind |-> "map", str |-> <<>>, arr |-> <<>>, tab |-> EmptyMap, ref |-> r]

\* the table keys of a parsed store
mapKeys(st) == {k \in DOMAIN st.kv : st.kv[k].kind = "map"}

\* the object loadBuffer returned, each table being the map object
\* parseProperty made for it
Interned(id, st) ==
  [isNil |-> FALSE,
   kv |-> [k \in DOMAIN st.kv |->
             IF st.kv[k].kind = "map" THEN RefV(<<id, k>>) ELSE st.kv[k]]]

\* the contents of every held object, references followed
View(sts, hp) ==
  [i \in DOMAIN sts |->
     [k \in DOMAIN sts[i].kv |->
        IF sts[i].kv[k].kind = "map" THEN MapV(hp[sts[i].kv[k].ref])
        ELSE sts[i].kv[k]]]

\* the declarations the held objects are loaded from: list values with a
\* shared, an empty and a repeated element, table values with a shared
\* sub-key and an empty sub-value, scalar values
ListDecls ==
  { <<"l", "[", "]", "=", "a", ",", "b">>,
    <<"l", "[", "]", "=", "b", ",", "c">>,
    <<"l", "[", "]", "=", ",", "b">>,
    <<"l", "[", "]", "=", "c", ",", "c">> }
TableDecls ==
  { <<"t", "[", ":", "]", "=", "a", ":", "1">>,
    <<"t", "[", ":", "]", "=", "a", ":", ",", "b", ":", "2">> }
ScalarDecls ==
  { <<"s", "=", "x">>,
    <<"s", "=", "y">> }

\* at most one declaration of each kind, one per line; a lone comment
\* when there is none
StoreBufs ==
  { IF Len(ls) = 0 THEN <<R_COMMENT>> ELSE Join(ls) :
      ls \in { l \o t \o sc : l \in {<<>>} \cup {<<d>> : d \in ListDecls},
                              t \in {<<>>} \cup {<<d>> : d \in TableDecls},
                              sc \in {<<>>} \cup {<<d>> : d \in ScalarDecls} } }

\* the objects the caller holds
StoreIds == {"x", "y"}

\* calls made on the held objects
MaxOps == 2

\* the caller keeps the object LoadStr returned and, while it holds fewer
\* than StoreIds, loads another buffer
Keep ==
  /\ pc = "done"
  /\ entry = "LoadStr"
  /\ e = NoErr
  /\ ~p.isNil
  /\ StoreIds \ DOMAIN stores # {}
  /\ LET id == CHOOSE i \in StoreIds \ DOMAIN stores : TRUE
     IN  /\ stores' = stores @@ (id :> Interned(id, p))
         /\ heap' = heap @@ [r \in {<<id, k>> : k \in mapKeys(p)} |->
                               p.kv[r[2]].tab]
         /\ IF StoreIds \ DOMAIN stores = {id}
            THEN pc' = "ready" /\ UNCHANGED input
            ELSE pc' = "init" /\ input' \in StoreBufs
  /\ entry' = "none"
  /\ s' = <<>>
  /\ pos' = 0
  /\ erase' = FALSE
  /\ cont' = FALSE
  /\ reset' = FALSE
  /\ b' = <<>>
  /\ specs' = <<>>
  /\ n' = 0
  /\ p' = NilStore
  /\ UNCHANGED <<e, last>>

\* the record of a call
Call(op, into, from, overwrite, out) ==
  [op |-> op, into |-> into, from |-> from, overwrite |-> overwrite,
   key |-> <<>>, before |-> View(stores, heap), out |-> out,
   seq |-> last.seq + 1]

copyKV_always(pkv, fkv, overwrite) ==
  [k \in DOMAIN pkv \cup DOMAIN fkv |->
     IF k \in DOMAIN fkv THEN fkv[k] ELSE pkv[k]]

\* Copy's loop: p[k] = v for every key of from that p lacks, or for every
\* key of from when overwrite is set
copyKV(pkv, fkv, overwrite) ==
  [k \in DOMAIN pkv \cup DOMAIN fkv |->
     IF k \in DOMAIN fkv /\ (k \notin DOMAIN pkv \/ overwrite)
     THEN fkv[k] ELSE pkv[k]]

\* p.Copy(from, overwrite), p and from distinct held objects
Copy ==
  /\ pc = "ready"
  /\ last.seq < MaxOps
  /\ \E i \in DOMAIN stores, j \in DOMAIN stores, overwrite \in BOOLEAN :
       /\ i # j
       /\ stores' = [stores EXCEPT
                       ![i].kv = copyKV(stores[i].kv, stores[j].kv, overwrite)]
       /\ last' = Call("Copy", i, j, overwrite, <<>>)
  /\ UNCHANGED <<pc, entry, input, s, pos, erase, cont, reset, b, specs, n,
                 p, e, heap>>

inheritArray_appended(pv, v) ==
  LET unseen(av) == (\A x \in 1..Len(pv) : pv[x] # av) \/ av = <<>>
  IN  pv \o SelectSeq(v, unseen)

\* Inherit's list case: temp holds the receiver's elements; the parent's
\* elements av with temp[av] == "" are collected, and the receiver's
\* list is appended to them
inheritArray(pv, v) ==
  LET unseen(av) == (\A x \in 1..Len(pv) : pv[x] # av) \/ av = <<>>
  IN  SelectSeq(v, unseen) \o pv

\* Inherit's table case: the parent's sub-entries mv are written to the
\* receiver's map wherever pmapv[mk] == ""
inheritMap(pmapv, mapv) ==
  [mk \in DOMAIN pmapv \cup DOMAIN mapv |->
     IF mk \in DOMAIN mapv /\ (mk \notin DOMAIN pmapv \/ pmapv[mk] = <<>>)
     THEN mapv[mk] ELSE pmapv[mk]]

\* a type assertion of Inherit that fails
inheritPanics(pkv, fkv) ==
  \E k \in DOMAIN pkv \cap DOMAIN fkv :
    \/ IsArrayKey(k) /\ (pkv[k].kind # "array" \/ fkv[k].kind # "array")
    \/ IsMapKey(k) /\ (pkv[k].kind # "map" \/ fkv[k].kind # "map")

\* the receiver's entries after Inherit: an absent key takes the parent's
\* value, a list key the merged list; a table key keeps its map object
inheritKV(pkv, fkv) ==
  [k \in DOMAIN pkv \cup DOMAIN fkv |->
     IF k \notin DOMAIN pkv THEN fkv[k]
     ELSE IF k \in DOMAIN fkv /\ IsArrayKey(k)
          THEN ArrV(inheritArray(pkv[k].arr, fkv[k].arr))
          ELSE pkv[k]]

\* the map objects after Inherit: the receiver's map of every table key
\* both objects hold is written in place
inheritHeap(hp, pkv, fkv) ==
  [r \in DOMAIN hp |->
     LET ks == {k \in DOMAIN pkv \cap DOMAIN fkv :
                  IsMapKey(k) /\ pkv[k].kind = "map" /\ pkv[k].ref = r}
     IN  IF ks = {} THEN hp[r]
         ELSE inheritMap(hp[r], hp[fkv[CHOOSE k \in ks : TRUE].ref])]

\* p.Inherit(from), p and from distinct held objects.  A failed type
\* assertion ends the program; what the loop wrote before it is not kept
\* in the model.
Inherit ==
  /\ pc = "ready"
  /\ last.seq < MaxOps
  /\ \E i \in DOMAIN stores, j \in DOMAIN stores :
       /\ i # j
       /\ last' = Call("Inherit", i, j, FALSE, <<>>)
       /\ IF stores[j].isNil
          THEN UNCHANGED <<pc, stores, heap>>
          ELSE IF inheritPanics(stores[i].kv, stores[j].kv)
          THEN pc' = "panic" /\ UNCHANGED <<stores, heap>>
          ELSE /\ stores' = [stores EXCEPT
                               ![i].kv = inheritKV(stores[i].kv, stores[j].kv)]
               /\ heap' = inheritHeap(heap, stores[i].kv, stores[j].kv)
               /\ UNCHANGED pc
  /\ UNCHANGED <<entry, input, s, pos, erase, cont, reset, b, specs, n, p, e>>

\* Clone's result: the named result clone is never made, so it is the nil
\* map; the first clone[k] = v writes to a nil map, which panics
cloneResult(st) ==
  IF DOMAIN st.kv = {} THEN [panic |-> FALSE, st |-> NilStore]
  ELSE [panic |-> TRUE, st |-> NilStore]

\* p.Clone()
Clone ==
  /\ pc = "ready"
  /\ last.seq < MaxOps
  /\ \E i \in DOMAIN stores :
       LET r == cloneResult(stores[i])
       IN  /\ last' = Call("Clone", i, "", FALSE, r)
           /\ pc' = IF r.panic THEN "panic" ELSE pc
  /\ UNCHANGED <<entry, input, s, pos, erase, cont, reset, b, specs, n, p, e,
                 stores, heap>>

InitStores == InitWith(StoreBufs)

NextStores ==
  \/ LoadStr
  \/ ScanChar
  \/ SplitSpecs
  \/ LoadNext
  \/ LoadReturn
  \/ Keep
  \/ Copy
  \/ Inherit
  \/ Clone

\* the caller loads the objects named by StoreIds and then calls Copy,
\* Inherit and Clone on them
SpecStores == InitStores /\ [][NextStores]_vars

\* three held objects, loaded from a smaller set of buffers: no
\* declaration, a table, a list, or a table and a list
ShareIds == {"x", "y", "z"}
ShareBufs ==
  {<<R_COMMENT>>, <<"l", "[", "]", "=", "a", ",", "b">>}
  \cup TableDecls
  \cup {Join(<<d, <<"l", "[", "]", "=", "b", ",", "c">>>>) : d \in TableDecls}

\* the caller keeps the object LoadStr returned and, while it holds fewer
\* than ShareIds, loads another buffer of ShareBufs
KeepShare ==
  /\ pc = "done"
  /\ entry = "LoadStr"
  /\ e = NoErr
  /\ ~p.isNil
  /\ ShareIds \ DOMAIN stores # {}
  /\ LET id == CHOOSE i \in ShareIds \ DOMAIN stores : TRUE
     IN  /\ stores' = stores @@ (id :> Interned(id, p))
         /\ heap' = heap @@ [r \in {<<id, k>> : k \in mapKeys(p)} |->
                               p.kv[r[2]].tab]
         /\ IF ShareIds \ DOMAIN stores = {id}
            THEN pc' = "ready" /\ UNCHANGED input
            ELSE pc' = "init" /\ input' \in ShareBufs
  /\ entry' = "none"
  /\ s' = <<>>
  /\ pos' = 0
  /\ erase' = FALSE
  /\ cont' = FALSE
  /\ reset' = FALSE
  /\ b' = <<>>
  /\ specs' = <<>>
  /\ n' = 0
  /\ p' = NilStore
  /\ UNCHANGED <<e, last>>

InitShare == InitWith(ShareBufs)

NextShare ==
  \/ LoadStr
  \/ ScanChar
  \/ SplitSpecs
  \/ LoadNext
  \/ LoadReturn
  \/ KeepShare
  \/ Copy
  \/ Inherit

\* the caller loads three objects and then calls Copy and Inherit on them
SpecShare == InitShare /\ [][NextShare]_vars

(***************************************************************************)
(* Vocabulary of the properties                                            *)
(***************************************************************************)
Count(txt, c) == Cardinality({i \in 1..Len(txt) : txt[i] = c})

\* the text before the first comment introducer
StripComment(line) ==
  LET i == Index(line, R_COMMENT)
  IN  IF i < 0 THEN line ELSE SubSeq(line, 1, i)

\* a logical line after comment stripping and trimming
Effective(line) == Trim(StripComment(line), TRIMSET)

\* a non-short logical line that does not hold exactly one "="
BadLine(line) ==
  /\ Len(Effective(line)) >= MIN_ENTRY_LEN
  /\ Count(Effective(line), PKV_SEP) # 1

EmptyStore(st) == ~st.isNil /\ DOMAIN st.kv = {}

(***************************************************************************)
(* C1: if some logical line (after comment stripping) does not hold        *)
(* exactly one "=", the parse entry point fails with an error and the      *)
(* Store it returns is nil, whatever declarations preceded the line.       *)
(* Refuted: loadBuffer returns its named result p, the map built so far.   *)
(***************************************************************************)
C1_NoPartialStore ==
  (Done /\ \E i \in 1..Len(specs) : BadLine(specs[i]))
    => (e # NoErr /\ p.isNil)

Finished == pc \in {"done", "panic"}

Returned == pc = "done" /\ e = NoErr /\ ~p.isNil

\* the physical lines of a buffer
PhysLines(txt) == Split(txt, LF)

\* the fragment a physical line contributes: the line without its final
\* continuation marker, the last line as it is
Frag(L, i) == IF i < Len(L) THEN SubSeq(L[i], 1, Len(L[i]) - 1) ELSE L[i]

\* a buffer holding one declaration: every physical line but the last ends
\* in a continuation marker, and no fragment holds a comment introducer,
\* a continuation marker or a carriage return
OneDeclShape(txt) ==
  LET L == PhysLines(txt)
  IN  /\ \A i \in 1..(Len(L) - 1) :
           Len(L[i]) >= 1 /\ L[i][Len(L[i])] = R_CONTINUATION
      /\ \A i \in 1..Len(L) : \A j \in 1..Len(Frag(L, i)) :
           Frag(L, i)[j] \notin {R_COMMENT, R_CONTINUATION, CR}

\* the fragments of the lines i.. concatenated, nothing in between
RECURSIVE FuseFrom(_, _)
FuseFrom(L, i) ==
  IF i > Len(L) THEN <<>> ELSE Frag(L, i) \o FuseFrom(L, i + 1)

Fused(txt) == FuseFrom(PhysLines(txt), 1)

\* a buffer holding one declaration with exactly one "="
OneDecl(txt) == OneDeclShape(txt) /\ Count(Fused(txt), PKV_SEP) = 1

KeyPart(d) == SubSeq(d, 1, Index(d, PKV_SEP))
ValPart(d) == Drop(d, Index(d, PKV_SEP) + 1)
DeclKey(txt) == Trim(KeyPart(Fused(txt)), WS)
DeclValue(txt) == Trim(ValPart(Fused(txt)), WS)

\* the kind a key's suffix selects: "[:]" (Properties) or "map[]"
\* (Gestalt) for a table, "[]" for a list
TableKey(en, key) ==
  IF en = "New" THEN HasSuffix(key, GMAP) ELSE HasSuffix(key, MAP)
ListKey(en, key) == ~TableKey(en, key) /\ HasSuffix(key, ARRAY)
ScalarKey(en, key) == ~TableKey(en, key) /\ ~HasSuffix(key, ARRAY)

GetStr(en, st, key) ==
  IF en = "New" THEN GestaltGetString(st, key) ELSE GetString(st, key)

HasQuote(txt) == \E i \in 1..Len(txt) : txt[i] \in QUOTE

\* one enclosing pair of quotes removed, when the first and the last
\* character are both the quote
OnePair(v) ==
  IF Len(v) >= 2 /\ v[1] \in QUOTE /\ v[Len(v)] \in QUOTE
  THEN SubSeq(v, 2, Len(v) - 1)
  ELSE v

\* no quote at either end, or one enclosing pair with no further quote at
\* either end inside it
WellQuoted(v) ==
  LET NoEndQuote(x) ==
        x = <<>> \/ (x[1] \notin QUOTE /\ x[Len(x)] \notin QUOTE)
  IN  NoEndQuote(v) \/ (OnePair(v) # v /\ NoEndQuote(OnePair(v)))

(***************************************************************************)
(* C3: continuation fusion.  When a scalar declaration spans several       *)
(* physical lines, each but the last ending in the continuation marker     *)
(* right before the line-feed, and the fragments hold no "#", "\" or       *)
(* second "=", LoadStr decodes the value as the literal concatenation of   *)
(* the fragments, trimmed only at the two ends of the whole value: the     *)
(* leading whitespace of a continued line and the whitespace before a      *)
(* marker are kept and nothing is inserted.                                *)
(***************************************************************************)
C3_Case ==
  /\ entry = "LoadStr"
  /\ Len(PhysLines(input)) >= 2
  /\ OneDecl(input)
  /\ DeclKey(input) # <<>>
  /\ ScalarKey(entry, DeclKey(input))
  /\ DeclValue(input) # <<>>
  /\ ~HasQuote(DeclValue(input))

C3_ContinuationFusion ==
  (Finished /\ C3_Case)
    => /\ Returned
       /\ DOMAIN p.kv = {DeclKey(input)}
       /\ p.kv[DeclKey(input)] = StrV(DeclValue(input))

C3_Witness ==
  /\ Done
  /\ C3_Case
  /\ input = LongOne
  /\ p.kv[<<"l", "o">>] =
       StrV(<<"e", "n", "d", "s", " ", "i", "n", " ", " ", " ", " ", ".">>)

(***************************************************************************)
(* C4: for a well-formed scalar declaration k = v on one line, with no     *)
(* quote character in v, parsing yields a Store whose only key is trim(k)  *)
(* and GetString(trim(k)) is v without its surrounding spaces and tabs,    *)
(* the interior whitespace unchanged.                                      *)
(***************************************************************************)
C4_Case ==
  /\ Len(PhysLines(input)) = 1
  /\ OneDecl(input)
  /\ DeclKey(input) # <<>>
  /\ ScalarKey(entry, DeclKey(input))
  /\ DeclValue(input) # <<>>
  /\ ~HasQuote(ValPart(input))

C4_ScalarTrim ==
  (Finished /\ C4_Case)
    => /\ Returned
       /\ DOMAIN p.kv = {DeclKey(input)}
       /\ GetStr(entry, p, DeclKey(input)) = Got(StrV(DeclValue(input)))

C4_Witness ==
  /\ Done
  /\ C4_Case
  /\ entry = "LoadStr"
  /\ input = <<" ", "a", " ", "b", "\t", "=", " ", "a", " ", "a", "\t">>
  /\ GetString(p, <<"a", " ", "b">>) = Got(StrV(<<"a", " ", "a">>))

(***************************************************************************)
(* Vocabulary of the value properties                                      *)
(***************************************************************************)
\* the text between consecutive commas of the value part
Pieces(txt) == Split(ValPart(Fused(txt)), VAL_DELIM)

\* the trimmed units a declaration's value is decoded from: the whole
\* value of a scalar, the text between consecutive commas otherwise
Units(en, txt) ==
  IF ScalarKey(en, DeclKey(txt)) THEN <<DeclValue(txt)>>
  ELSE [i \in 1..Len(Pieces(txt)) |-> Trim(Pieces(txt)[i], WS)]

\* what the Store holds for the units of a scalar or list key
StoredUnits(st, key) ==
  IF st.kv[key].kind = "string" THEN <<st.kv[key].str>> ELSE st.kv[key].arr

(***************************************************************************)
(* C5: quote stripping removes at most one pair of enclosing quotes, and   *)
(* only when both the first and the last character of the trimmed value    *)
(* are the quote; a value with a quote at one end only, or with several    *)
(* quotes at an end, loses no more than that pair.  Stated for scalar      *)
(* values and list elements of two characters or more.                     *)
(* Refuted: strings.Trim(v, QUOTE) removes every quote at either end.      *)
(***************************************************************************)
C5_Case ==
  /\ Len(PhysLines(input)) = 1
  /\ OneDecl(input)
  /\ DeclKey(input) # <<>>
  /\ ~TableKey(entry, DeclKey(input))
  /\ DeclValue(input) # <<>>
  /\ \A i \in 1..Len(Units(entry, input)) : Len(Units(entry, input)[i]) # 1

C5_OnePairOnly ==
  (Finished /\ C5_Case)
    => /\ Returned
       /\ DeclKey(input) \in DOMAIN p.kv
       /\ StoredUnits(p, DeclKey(input)) =
            [i \in 1..Len(Units(entry, input)) |->
               OnePair(Units(entry, input)[i])]

(***************************************************************************)
(* C6: a list-key declaration whose value holds n-1 commas decodes to a    *)
(* list of exactly n elements in declaration order, each the text between  *)
(* consecutive commas trimmed of spaces and tabs and unquoted; duplicates   *)
(* and empty elements are kept.  It holds as well when the value is spread *)
(* over continued lines: fragments with no comma between them fuse into    *)
(* one element.                                                            *)
(***************************************************************************)
C6_Case ==
  /\ OneDecl(input)
  /\ DeclKey(input) # <<>>
  /\ ListKey(entry, DeclKey(input))
  /\ DeclValue(input) # <<>>
  /\ \A i \in 1..Len(Units(entry, input)) : WellQuoted(Units(entry, input)[i])
  /\ entry = "New" => Len(PhysLines(input)) = 1

C6_ListDecoding ==
  (Finished /\ C6_Case)
    => /\ Returned
       /\ DOMAIN p.kv = {DeclKey(input)}
       /\ p.kv[DeclKey(input)].kind = "array"
       /\ Len(p.kv[DeclKey(input)].arr) =
            Count(ValPart(Fused(input)), VAL_DELIM) + 1
       /\ p.kv[DeclKey(input)].arr =
            [i \in 1..Len(Units(entry, input)) |->
               OnePair(Units(entry, input)[i])]

C6_Witness ==
  /\ Done
  /\ C6_Case
  /\ entry = "LoadStr"
  /\ input = MultiLine
  /\ p.kv[<<"m", "l", "[", "]">>].arr =
       << <<"a">>, <<"b">>, <<"c">>, <<"1", "2", " ", "4", "5", "6", "7">>,
          <<"d">>, <<"e">> >>

(***************************************************************************)
(* C7: table decoding splits the value on commas into entries and each     *)
(* entry once, at its first colon: the sub-key is the trimmed text before  *)
(* the first colon and the sub-value all of the trimmed text after it,     *)
(* later colons included.  Stated for quote-free values whose entries all  *)
(* hold a colon.                                                           *)
(* Refuted: the entry is split at every colon and the text after the       *)
(* second colon is lost (parseProperty) or the entry dropped (parsePSpec). *)
(***************************************************************************)
\* the table of the entries i.., each split at its first colon, a later
\* entry replacing an earlier one with the same sub-key
RECURSIVE FirstColonTable(_, _, _)
FirstColonTable(entries, i, m) ==
  IF i > Len(entries) THEN m
  ELSE LET c == Index(entries[i], KV_DELIM)
       IN  FirstColonTable(entries, i + 1,
             MapPut(m, Trim(SubSeq(entries[i], 1, c), WS),
                       Trim(Drop(entries[i], c + 1), WS)))

C7_Case ==
  /\ Len(PhysLines(input)) = 1
  /\ OneDecl(input)
  /\ TableKey(entry, DeclKey(input))
  /\ ~HasQuote(ValPart(input))
  /\ \A i \in 1..Len(Pieces(input)) : Count(Pieces(input)[i], KV_DELIM) >= 1

C7_SplitAtFirstColon ==
  (Finished /\ C7_Case)
    => /\ Returned
       /\ DeclKey(input) \in DOMAIN p.kv
       /\ p.kv[DeclKey(input)] =
            MapV(FirstColonTable(Pieces(input), 1, EmptyMap))

(***************************************************************************)
(* C8: a declaration whose value part is empty ("k =", "k[] =") is         *)
(* accepted without error and stores the key with the empty value of its   *)
(* kind: a scalar key holds the empty string, a list key the empty list.   *)
(* Refuted: parseProperty reports such a line as malformed (or passes over *)
(* it when it is shorter than MIN_ENTRY_LEN); parsePSpec stores a list of  *)
(* one empty string.                                                       *)
(***************************************************************************)
C8_Case ==
  /\ Len(PhysLines(input)) = 1
  /\ OneDecl(input)
  /\ DeclKey(input) # <<>>
  /\ ~TableKey(entry, DeclKey(input))
  /\ DeclValue(input) = <<>>

C8_EmptyValueAccepted ==
  (Finished /\ C8_Case)
    => /\ Returned
       /\ DeclKey(input) \in DOMAIN p.kv
       /\ p.kv[DeclKey(input)] =
            IF ScalarKey(entry, DeclKey(input)) THEN StrV(<<>>)
            ELSE ArrV(<<>>)

(***************************************************************************)
(* C9: a logical line whose trimmed length is below MIN_ENTRY_LEN (a       *)
(* blank line or a line of spaces and tabs of any untrimmed length,        *)
(* anywhere in the buffer) yields no pair and no error: the parse          *)
(* succeeds and the other declarations are stored.  Stated for short      *)
(* lines that hold no "=".                                                 *)
(* Refuted: parseProperty tests the untrimmed length, so a line of three   *)
(* spaces reaches the split and is reported as malformed.                  *)
(***************************************************************************)
ShortLine(line) ==
  Len(Trim(line, TRIMSET)) < MIN_ENTRY_LEN /\ Count(line, PKV_SEP) = 0

\* a logical line holding a scalar or list declaration with a non-empty
\* key and value
GoodLine(line) ==
  /\ Count(line, PKV_SEP) = 1
  /\ Trim(KeyPart(line), TRIMSET) # <<>>
  /\ Trim(ValPart(line), TRIMSET) # <<>>
  /\ ~IsMapKey(Trim(KeyPart(line), TRIMSET))

C9_Case ==
  /\ entry = "LoadStr"
  /\ pc # "scan"
  /\ \E i \in 1..Len(specs) : ShortLine(specs[i])
  /\ \A i \in 1..Len(specs) : ShortLine(specs[i]) \/ GoodLine(specs[i])

C9_ShortLineSkipped ==
  (Finished /\ C9_Case)
    => /\ Returned
       /\ DOMAIN p.kv =
            {Trim(KeyPart(specs[i]), TRIMSET) :
               i \in {j \in 1..Len(specs) : ~ShortLine(specs[j])}}

(***************************************************************************)
(* C10: in the segmenter, once a comment introducer is read no character   *)
(* of that physical line up to its line-feed is copied to the output,      *)
(* whatever the erase, continuation and reset flags are, and the comment   *)
(* does not cancel a pending continuation.                                 *)
(* Refuted: a "#" read while reset is pending (the first character of a    *)
(* continued line, or of the line after an empty continued line) is         *)
(* followed by a character that clears erase, and the comment is copied.   *)
(***************************************************************************)
\* character i of txt is a comment introducer or follows one on the same
\* physical line, and is not the line-feed
InComment(txt, i) ==
  /\ txt[i] # LF
  /\ \E j \in 1..i : txt[j] = R_COMMENT /\ \A k \in j..i : txt[k] # LF

C10_CommentErased ==
  [][(pc = "scan" /\ pos <= Len(s))
       => /\ InComment(s, pos) => b' = b
          /\ s[pos] = R_COMMENT => cont' = cont]_vars


(***************************************************************************)
(* Held objects: what a call found and what it left                        *)
(***************************************************************************)
\* the contents of the held objects before the last call, and now
Before == last.before
Now == View(stores, heap)

\* C11: after p.Copy(from, overwrite) the receiver holds every key of
\* from; with overwrite unset a key the receiver already held keeps its
\* value, with overwrite set every key of from has from's value; the
\* receiver's keys that from lacks are unchanged.
C11_CopyEffect ==
  last.op = "Copy" =>
    LET was == Before[last.into]
        src == Before[last.from]
        is == Now[last.into]
    IN  /\ pc = "ready"
        /\ DOMAIN is = DOMAIN was \cup DOMAIN src
        /\ \A k \in DOMAIN src :
             is[k] = IF k \in DOMAIN was /\ ~last.overwrite
                     THEN was[k] ELSE src[k]
        /\ \A k \in DOMAIN was \ DOMAIN src : is[k] = was[k]

\* a Copy without overwrite where from holds a key with another value than
\* the receiver's, a key the receiver lacks, and lacks a key of the receiver
C11_Witness ==
  /\ last.op = "Copy"
  /\ ~last.overwrite
  /\ \E k \in DOMAIN Before[last.into] \cap DOMAIN Before[last.from] :
       Before[last.into][k] # Before[last.from][k]
  /\ DOMAIN Before[last.from] \ DOMAIN Before[last.into] # {}
  /\ DOMAIN Before[last.into] \ DOMAIN Before[last.from] # {}

\* the keys both objects held before the last call
Shared == DOMAIN Before[last.into] \cap DOMAIN Before[last.from]

\* x is an element of the list xs
Elem(x, xs) == \E i \in 1..Len(xs) : xs[i] = x

\* the elements of xs that are no element of ys, in the order of xs
Without(xs, ys) ==
  LET keep(x) == ~Elem(x, ys)
  IN  SelectSeq(xs, keep)

\* C12: for a list key both objects hold, after child.Inherit(parent) the
\* child's list is the parent's elements that are no element of the
\* child's list, in the parent's order, followed by the child's full
\* list; for all lists, empty-string and repeated elements included.
C12_ParentNewThenChild ==
  last.op = "Inherit" =>
    \A k \in Shared :
      ListKey("LoadStr", k) =>
        Now[last.into][k].arr =
          Without(Before[last.from][k].arr, Before[last.into][k].arr)
            \o Before[last.into][k].arr

EmptyOrWithout(xs, ys) ==
  LET keep(x) == x = <<>> \/ ~Elem(x, ys)
  IN  SelectSeq(xs, keep)

C14_PresentSubKeyKept ==
  last.op = "Inherit" =>
    \A k \in Shared :
      TableKey("LoadStr", k) =>
        LET was == Before[last.into][k].tab
            src == Before[last.from][k].tab
        IN  Now[last.into][k].tab =
              [mk \in DOMAIN was \cup DOMAIN src |->
                 IF mk \in DOMAIN was THEN was[mk] ELSE src[mk]]

(***************************************************************************)
(* Accessors                                                               *)
(***************************************************************************)
\* the kind of value an accessor returns, and its empty default
KindOf(acc) ==
  IF acc = "GetString" THEN "string"
  ELSE IF acc = "GetArray" THEN "array" ELSE "map"
DefaultOf(acc) == IF acc = "GetString" THEN StrV(<<>>) ELSE NilV

\* C15: a typed accessor called with an absent key, or with a key whose
\* stored value is of another kind, returns its empty default and never
\* fails with a type-cast failure; the three accessors behave alike.
C15_MismatchGivesDefault ==
  last.op \in Accessors =>
    (Lookup(p, last.key).kind # KindOf(last.op) =>
       /\ ~last.out.panic
       /\ last.out.val = DefaultOf(last.op))

\* the entries that hold a colon
WithColon(entries) ==
  LET has(en) == Count(en, KV_DELIM) >= 1
  IN  SelectSeq(entries, has)

\* a one-line table declaration with a non-empty, quote-free value, no
\* entry with two colons and some entry without a colon
C16_Case ==
  /\ Len(PhysLines(input)) = 1
  /\ OneDecl(input)
  /\ TableKey(entry, DeclKey(input))
  /\ ~HasQuote(ValPart(input))
  /\ DeclValue(input) # <<>>
  /\ \A i \in 1..Len(Pieces(input)) : Count(Pieces(input)[i], KV_DELIM) <= 1
  /\ \E i \in 1..Len(Pieces(input)) : Count(Pieces(input)[i], KV_DELIM) = 0

\* C16: a table entry without a colon (the empty entry after a trailing
\* comma included) stores nothing and is passed over silently; the other
\* entries are decoded and the parse completes without abnormal failure.
C16_ColonlessEntrySkipped ==
  (Finished /\ C16_Case)
    => /\ Returned
       /\ DeclKey(input) \in DOMAIN p.kv
       /\ p.kv[DeclKey(input)] =
            MapV(FirstColonTable(WithColon(Pieces(input)), 1, EmptyMap))

\* C17: Clone returns, for every receiver, empty or not, an object that
\* holds exactly the receiver's keys with the same values, and leaves the
\* receiver unchanged.
C17_CloneHoldsReceiver ==
  last.op = "Clone" =>
    /\ ~last.out.panic
    /\ last.out.st.kv = stores[last.into].kv
    /\ Now = Before

(***************************************************************************)
(* The segmenter's output                                                  *)
(***************************************************************************)
Marker(c) == c \in {R_COMMENT, R_CONTINUATION}

\* C18: the text the segmenter produces holds no comment introducer and
\* no continuation marker, so no logical line handed to the decoder
\* holds either.
C18_NoMarkerInOutput ==
  entry = "LoadStr" =>
    /\ \A i \in 1..Len(b) : ~Marker(b[i])
    /\ \A l \in 1..Len(specs) : \A i \in 1..Len(specs[l]) : ~Marker(specs[l][i])

\* a buffer with a comment introducer and a continuation marker has been
\* segmented into at least one non-empty logical line
C18_Witness ==
  /\ entry = "LoadStr"
  /\ pc = "load"
  /\ Count(input, R_COMMENT) >= 1
  /\ Count(input, R_CONTINUATION) >= 1
  /\ \E l \in 1..Len(specs) : specs[l] # <<>>

(***************************************************************************)
(* Kinds                                                                   *)
(***************************************************************************)
\* the kind the suffix of a Properties key selects
SuffixKind(k) ==
  IF TableKey("LoadStr", k) THEN "map"
  ELSE IF ListKey("LoadStr", k) THEN "array" ELSE "string"

\* every value of the object's entries kv has the kind its key selects
WellKinded(kv) == \A k \in DOMAIN kv : kv[k].kind = SuffixKind(k)

\* C19: in every object a successful LoadStr returned, and after any
\* sequence of Copy and Inherit calls between such objects, each key's
\* value has the kind the key's suffix selects, and no key is classified
\* as both a table key and a list key.
C19_KindInvariant ==
  /\ \A id \in DOMAIN stores :
       /\ WellKinded(Now[id])
       /\ \A k \in DOMAIN stores[id].kv : ~(IsMapKey(k) /\ IsArrayKey(k))
  /\ (entry = "LoadStr" /\ Returned) => WellKinded(p.kv)
  /\ last.op \in {"Copy", "Inherit"} => pc = "ready"

\* after a Copy or Inherit that followed another call, and that changed
\* its receiver, the receiver holds a table, a list and a scalar key
C19_Witness ==
  /\ last.op \in {"Copy", "Inherit"}
  /\ last.seq >= 2
  /\ Now[last.into] # Before[last.into]
  /\ \A kind \in {"map", "array", "string"} :
       \E k \in DOMAIN Now[last.into] : SuffixKind(k) = kind

(***************************************************************************)
(* Line ends                                                               *)
(***************************************************************************)
\* C20: parsing a buffer with CR LF line ends gives the same outcome (the
\* same store, or an error in both cases) as parsing the buffer with each
\* CR LF replaced by LF.
C20_LineEndingEquivalence ==
  (pc \in {"done", "panic"} /\ last.op = "parsed") => Outcome = last.out

(***************************************************************************)
(* The objects a call is not made on                                       *)
(***************************************************************************)
\* C21: Inherit and Copy modify only their receiver: a call leaves
\* unchanged the contents (keys, lists, table sub-entries) of from and of
\* every other object, the from of an earlier Inherit or Copy into the
\* same receiver included.
C21_OnlyReceiverModified ==
  last.op \in {"Copy", "Inherit"} =>
    \A id \in DOMAIN stores \ {last.into} : Now[id] = Before[id]
====
